---- MODULE Spec2Model ----
(***************************************************************************)
(* Model of the mxpsu command-execution and error-verification engine:     *)
(* the Connection trait and its serial / socket implementations            *)
(* (src/src/connection.rs), the error type (src/src/error.rs) and the      *)
(* MxSeries protocol engine (src/src/lib.rs).                              *)
(*                                                                         *)
(* A command line is a TLA+ string ("OP1 1\n").  A response is a sequence  *)
(* of bytes, each byte a one-character string; "BAD" stands for a byte     *)
(* that is not valid UTF-8.  The instrument is the environment: it keeps   *)
(* the event status register, processes lines in the order written and     *)
(* answers queries.                                                        *)
(***************************************************************************)
EXTENDS Integers, Sequences, FiniteSets, TLC

VARIABLES
    conn,        \* MxSeries.connection: "serial" or "socket"
    esr,         \* the instrument's event status register (0..255)
    rx,          \* bytes received from the instrument and not yet read
    pending,     \* reply bytes that arrive only after the next read's deadline
    late_left,   \* how many more replies the transport may deliver late
    wire,        \* lines written to the transport during the current call
    trace,       \* engine events of the current call, in order
    pc,          \* position of the engine inside the current call
    op,          \* public operation being executed
    command,     \* command / command_sent of the current call
    index,       \* the store index argument of save / recall (-1: none)
    e,           \* _query_and_check: the error of the failed query
    esr_reply,   \* _check_event_status_register: esr_reply
    status_val,  \* _check_event_status_register: status_val (-1 before parse)
    eer_code,    \* _check_event_status_register: error_code (None before the parse)
    esr0,        \* the instrument's register when the call started
    raised,      \* bits the instrument raised during the current call
    result,      \* value returned by the current call
    opts,        \* turn_on_multi / turn_off_multi: the options argument
    order,       \* the order in which the HashMap iterator yields the channels
    plan,        \* the steps of the multi-channel call that are still to run
    prev         \* the previous multi-channel call that succeeded, if any

\* the state of the multi-channel sequencer
multi == <<opts, order, plan, prev>>

vars == <<conn, esr, rx, pending, late_left, wire, trace, pc, op, command, index, e,
          esr_reply, status_val, eer_code, esr0, raised, result, opts, order, plan, prev>>

----------------------------------------------------------------------------
(* Bounds of the model *)

\* how many replies of a session may arrive after the deadline of their read
MaxLate == 1

----------------------------------------------------------------------------
(* Bytes and text *)

CR == "\r"
LF == "\n"
BAD == "BAD"
CRLF == <<CR, LF>>
DigitChars == <<"0", "1", "2", "3", "4", "5", "6", "7", "8", "9">>
Whitespace == {" ", "\t", CR, LF}

IsDigit(c) == \E i \in 1..10 : DigitChars[i] = c
DigitVal(c) == (CHOOSE i \in 1..10 : DigitChars[i] = c) - 1

RECURSIVE ToDec(_)
\* the instrument's decimal rendering of a non-negative integer
ToDec(n) == IF n < 10 THEN <<DigitChars[n + 1]>>
            ELSE ToDec(n \div 10) \o <<DigitChars[(n % 10) + 1]>>

RECURSIVE TrimStart(_)
TrimStart(s) == IF s # <<>> /\ Head(s) \in Whitespace THEN TrimStart(Tail(s)) ELSE s

RECURSIVE TrimEnd(_)
TrimEnd(s) == IF s # <<>> /\ s[Len(s)] \in Whitespace
              THEN TrimEnd(SubSeq(s, 1, Len(s) - 1)) ELSE s

\* str::trim
Trim(s) == TrimEnd(TrimStart(s))

RECURSIVE DigitsValue(_)
DigitsValue(s) == IF s = <<>> THEN 0
                  ELSE DigitsValue(SubSeq(s, 1, Len(s) - 1)) * 10 + DigitVal(s[Len(s)])

AllDigits(s) == s # <<>> /\ \A i \in 1..Len(s) : IsDigit(s[i])

U8Max == 255
I32Max == 2147483647

RECURSIVE StripZeros(_)
\* leading zeros do not count towards the magnitude
StripZeros(s) == IF Len(s) > 1 /\ Head(s) = "0" THEN StripZeros(Tail(s)) ELSE s

RECURSIVE LexLeq(_, _)
\* digit strings of equal length, compared as numbers
LexLeq(s, t) == IF s = <<>> THEN TRUE
                ELSE IF DigitVal(Head(s)) # DigitVal(Head(t))
                     THEN DigitVal(Head(s)) < DigitVal(Head(t))
                     ELSE LexLeq(Tail(s), Tail(t))

I32MaxDigits == <<"2", "1", "4", "7", "4", "8", "3", "6", "4", "7">>
I32MinDigits == <<"2", "1", "4", "7", "4", "8", "3", "6", "4", "8">>

\* str::parse::<u8>: an optional '+', then digits, value at most 255
ParseU8(s) ==
    LET body == IF s # <<>> /\ Head(s) = "+" THEN Tail(s) ELSE s
        d == StripZeros(body)
    IN IF AllDigits(body) /\ Len(d) <= 3 /\ DigitsValue(d) <= U8Max
       THEN [ok |-> TRUE, val |-> DigitsValue(d)]
       ELSE [ok |-> FALSE, val |-> 0]

\* str::parse::<i32>: an optional '+' or '-', then digits, value within i32
ParseI32(s) ==
    LET neg == s # <<>> /\ Head(s) = "-"
        body == IF s # <<>> /\ Head(s) \in {"+", "-"} THEN Tail(s) ELSE s
        d == StripZeros(body)
        fits == Len(d) < 10
                \/ (Len(d) = 10 /\ LexLeq(d, IF neg THEN I32MinDigits ELSE I32MaxDigits))
    IN IF AllDigits(body) /\ fits
       THEN [ok |-> TRUE,
             val |-> IF ~neg THEN DigitsValue(d)
                     ELSE IF d = I32MinDigits THEN (0 - I32Max) - 1
                     ELSE 0 - DigitsValue(d)]
       ELSE [ok |-> FALSE, val |-> 0]

\* the instrument's decimal rendering of an integer
ToDecSigned(n) == IF n < 0 THEN <<"-">> \o ToDec(0 - n) ELSE ToDec(n)

\* Option<i32>: None, Some(code)
None == <<>>
Some(code) == <<code>>

\* status_val & (1 << b) != 0
BitSet(v, b) == (v \div (2 ^ b)) % 2 = 1

RECURSIVE BitOrFrom(_, _, _)
BitOrFrom(a, b, i) == IF i > 7 THEN 0
                      ELSE (IF BitSet(a, i) \/ BitSet(b, i) THEN 2 ^ i ELSE 0)
                           + BitOrFrom(a, b, i + 1)

\* the instrument's sticky accumulation of event bits
BitOr(a, b) == BitOrFrom(a, b, 0)

----------------------------------------------------------------------------
(* error.rs: MxError, and the values a call returns *)

NoVal == <<>>

MkResult(tag, code, etype, desc, cmd, val) ==
    [tag |-> tag, code |-> code, etype |-> etype, desc |-> desc, cmd |-> cmd, val |-> val]

\* no value returned yet
NoResult == MkResult("None", 0, "", "", "", NoVal)

Ok(val) == MkResult("Ok", 0, "", "", "", val)

\* MxError::Io(std::io::Error) produced by the transport; kind is the OS error kind
IoError(kind) == MkResult("Io", 0, "", kind, "", NoVal)

\* Display of an error, as far as the engine embeds it in another error
Display(err) == err.tag \o ": " \o err.desc

\* a status check that passes on the failure of the *ESR? query as it is
EsrQueryFailed_PassesInner(inner, cmd) == inner

\* MxError::Io built by _check_event_status_register when the *ESR? query fails
EsrQueryFailed(inner, cmd) ==
    MkResult("Io", 0, Display(inner), "Failed to query *ESR?", cmd, NoVal)

ParseError(desc, text, cmd) == MkResult("Parse", 0, "", desc, cmd, text)

\* a syntax error that does not say which command was being verified
CommandError_Unnamed(cmd) ==
    MkResult("CommandError", 0, "", "Syntax error in command or parameter.", "", NoVal)

CommandError(cmd) ==
    MkResult("CommandError", 0, "", "Syntax error in command or parameter.", cmd, NoVal)

ExecutionError(code, etype, desc) == MkResult("ExecutionError", code, etype, desc, "", NoVal)

VerifyTimeoutError(cmd) ==
    MkResult("VerifyTimeoutError", 0, "", "Verify timeout or device dependent error.", cmd, NoVal)

QueryError(cmd) ==
    MkResult("QueryError", 0, "", "Query error (e.g., attempt to read without sending command).", cmd, NoVal)

UndefinedDeviceErrorCode(code, cmd) == MkResult("UndefinedDeviceErrorCode", code, "", "", cmd, NoVal)

InvalidParameter(desc) == MkResult("InvalidParameter", 0, "", desc, "", NoVal)

IsErr(r) == r.tag \notin {"Ok", "None"}

----------------------------------------------------------------------------
(* lib.rs: the Error Code Table *)

TableCodes == {0, 100, 102, 103, 104, 200}

EXECUTION_ERROR_CODES ==
    [c \in TableCodes |->
        CASE c = 0 -> <<"OK", "No error has occurred since this register was last read.">>
          [] c = 100 -> <<"NumericError", "The parameter value sent was outside the permitted range for the command in the present circumstances.">>
          [] c = 102 -> <<"RecallError", "A recall of set up data has been requested but the store specified does not contain any data.">>
          [] c = 103 -> <<"CommandInvalid", "The command is recognised but is not valid in the current circumstances. Typical examples would be trying to change V2 directly while the outputs are in voltage tracking mode with V1 as the master.">>
          [] c = 104 -> <<"RangeChangeError", "An operation requiring a range change was requested but could not be completed. Typically this occurs because >0.5V was still present on output 1 and/or output 2 terminals at the time the command was executed.">>
          [] c = 200 -> <<"AccessDenied", "An attempt was made to change the instrument's settings from an interface which is locked out of write privileges by a lock held by another interface.">>]

\* a lookup that hands the description out as the category and vice versa
ResolveErrorCode_SwappedFields(code, cmd) ==
    IF code \in DOMAIN EXECUTION_ERROR_CODES
    THEN ExecutionError(code, EXECUTION_ERROR_CODES[code][2], EXECUTION_ERROR_CODES[code][1])
    ELSE UndefinedDeviceErrorCode(code, cmd)

\* a lookup that reports an uncatalogued code as a resolved execution error
ResolveErrorCode_UnknownAsResolved(code, cmd) ==
    IF code \in DOMAIN EXECUTION_ERROR_CODES
    THEN ExecutionError(code, EXECUTION_ERROR_CODES[code][1], EXECUTION_ERROR_CODES[code][2])
    ELSE ExecutionError(code, "Undefined", "")

\* a lookup that takes code 0 ("OK") for success
ResolveErrorCode_ZeroIsOk(code, cmd) ==
    IF code = 0 THEN Ok(NoVal)
    ELSE IF code \in DOMAIN EXECUTION_ERROR_CODES
    THEN ExecutionError(code, EXECUTION_ERROR_CODES[code][1], EXECUTION_ERROR_CODES[code][2])
    ELSE UndefinedDeviceErrorCode(code, cmd)

\* lines 128-136: resolve an error code through the table
ResolveErrorCode(code, cmd) ==
    IF code \in DOMAIN EXECUTION_ERROR_CODES
    THEN ExecutionError(code, EXECUTION_ERROR_CODES[code][1], EXECUTION_ERROR_CODES[code][2])
    ELSE UndefinedDeviceErrorCode(code, cmd)

\* an inspection that treats the power-on bit as an error
InspectStatus_PowerOnIsError(val, cmd, eer) ==
    IF BitSet(val, 7) THEN CommandError(cmd)
    ELSE IF BitSet(val, 5) THEN CommandError(cmd)
    ELSE IF BitSet(val, 4) THEN eer
    ELSE IF BitSet(val, 3) THEN VerifyTimeoutError(cmd)
    ELSE IF BitSet(val, 2) THEN QueryError(cmd)
    ELSE Ok(NoVal)

\* an inspection that looks at the execution-error bit before the syntax-error bit
InspectStatus_ExecutionFirst(val, cmd, eer) ==
    IF BitSet(val, 4) THEN eer
    ELSE IF BitSet(val, 5) THEN CommandError(cmd)
    ELSE IF BitSet(val, 3) THEN VerifyTimeoutError(cmd)
    ELSE IF BitSet(val, 2) THEN QueryError(cmd)
    ELSE Ok(NoVal)

\* an inspection that fails on any bit of the register, error bit or not
InspectStatus_AnyBitIsError(val, cmd, eer) ==
    IF BitSet(val, 5) THEN CommandError(cmd)
    ELSE IF BitSet(val, 4) THEN eer
    ELSE IF BitSet(val, 3) THEN VerifyTimeoutError(cmd)
    ELSE IF val # 0 THEN QueryError(cmd)
    ELSE Ok(NoVal)

\* lines 118-148: the inspection of the status bits; eer is the outcome of
\* the EER? exchange, used only when bit 4 decides
InspectStatus(val, cmd, eer) ==
    IF BitSet(val, 5) THEN CommandError(cmd)
    ELSE IF BitSet(val, 4) THEN eer
    ELSE IF BitSet(val, 3) THEN VerifyTimeoutError(cmd)
    ELSE IF BitSet(val, 2) THEN QueryError(cmd)
    ELSE Ok(NoVal)

\* the bits the engine treats as errors
ErrorBits == {2, 3, 4, 5}
HasErrorBit(v) == \E b \in ErrorBits : BitSet(v, b)

----------------------------------------------------------------------------
(* The instrument and the transport: the environment of the engine *)

\* values the instrument may add to its register while it processes a line:
\* each error bit alone, and the bits the engine ignores (0, 1, 6, 7) together
RaiseSet == {0, 4, 8, 16, 32, 195}

\* codes the instrument may answer to EER?
EerCodes == TableCodes \cup {999, -1}

\* replies of the instrument to an ordinary query
QueryReplies == { <<"1", ".", "2", "3", "4", "A", CR, LF>>,
                  <<" ", "1", " ", CR, LF>>,
                  <<"1", CR, "2", CR, LF>>,
                  <<"1", ".">>,
                  <<BAD, CR, LF>>,
                  <<>> }

QueryCommands == {"OP1?", "V1O?"}

Outcome(newEsr, reply, raise) == [esr |-> newEsr, reply |-> reply, raise |-> raise]

\* what the instrument may do with one line: the new register, the reply it
\* sends (<<>>: none) and the bits it raised
Instrument(line, reg) ==
    IF line = "*ESR?\n"
    THEN { Outcome(0, ToDec(reg) \o CRLF, 0),
           Outcome(0, <<"x", CR, LF>>, 0),
           Outcome(0, <<BAD, LF>>, 0),
           Outcome(reg, <<>>, 0) }
    ELSE IF line = "EER?\n"
    THEN { Outcome(reg, ToDecSigned(c) \o CRLF, 0) : c \in EerCodes }
         \cup { Outcome(reg, <<"x", CR, LF>>, 0), Outcome(reg, <<>>, 0) }
    ELSE IF line = "*CLS\n"
    THEN { Outcome(0, <<>>, 0) }
    ELSE IF line = "*RST\n"
    THEN { Outcome(reg, <<>>, 0) }
    ELSE IF line \in { q \o "\n" : q \in QueryCommands }
    THEN { Outcome(BitOr(reg, r), rep, r) : r \in RaiseSet, rep \in QueryReplies }
    ELSE { Outcome(BitOr(reg, r), <<>>, r) : r \in RaiseSet }

\* OS error kinds of a failing transport
IoKinds == {"BrokenPipe"}

FirstLF(s) == IF \E i \in 1..Len(s) : s[i] = LF
              THEN CHOOSE i \in 1..Len(s) : s[i] = LF /\ \A j \in 1..(i - 1) : s[j] # LF
              ELSE 0

HasBad(s) == \E i \in 1..Len(s) : s[i] = BAD

Ev(ev, line, ms, val) == [ev |-> ev, line |-> line, ms |-> ms, val |-> val]

----------------------------------------------------------------------------
(* connection.rs *)

\* write_command (both implementations): the bytes handed to the transport
full_command(cmd) == cmd \o "\n"

ReadOutcome(res, rest) == [res |-> res, rest |-> rest]

\* a serial read for which a deadline that passes without a terminator is a
\* failure
SerialRead_TimeoutIsError(avail) ==
    LET n == FirstLF(avail)
        taken == IF n > 0 THEN SubSeq(avail, 1, n - 1) ELSE avail
        rest == IF n > 0 THEN SubSeq(avail, n + 1, Len(avail)) ELSE <<>>
        serial_buf == SelectSeq(taken, LAMBDA c : c # CR)
    IN ReadOutcome(IF n = 0 THEN IoError("TimedOut")
                   ELSE IF HasBad(serial_buf)
                   THEN ParseError("Invalid UTF-8 sequence", NoVal, "")
                   ELSE Ok(Trim(serial_buf)),
                   rest)

\* SerialConnection::read_response on the bytes that arrive before the
\* deadline: read byte by byte up to the first LF, dropping every CR; no more
\* bytes (Ok(0) or TimedOut) ends the line as well
SerialRead(avail) ==
    LET n == FirstLF(avail)
        taken == IF n > 0 THEN SubSeq(avail, 1, n - 1) ELSE avail
        rest == IF n > 0 THEN SubSeq(avail, n + 1, Len(avail)) ELSE <<>>
        serial_buf == SelectSeq(taken, LAMBDA c : c # CR)
    IN ReadOutcome(IF HasBad(serial_buf)
                   THEN ParseError("Invalid UTF-8 sequence", NoVal, "")
                   ELSE Ok(Trim(serial_buf)),
                   rest)

\* SocketConnection::read_response: BufReader::read_line up to and including
\* the first LF; without one, end of stream yields what was read and a read
\* timeout yields the I/O error (the bytes read so far are dropped)
SocketRead(avail, eof) ==
    LET n == FirstLF(avail)
        response == IF n > 0 THEN SubSeq(avail, 1, n) ELSE avail
        rest == IF n > 0 THEN SubSeq(avail, n + 1, Len(avail)) ELSE <<>>
    IN ReadOutcome(IF n = 0 /\ ~eof THEN IoError("WouldBlock")
                   ELSE IF HasBad(response) THEN IoError("InvalidData")
                   ELSE Ok(Trim(response)),
                   rest)

\* read_response of the connection in use; when the transport itself fails
\* the bytes it held are gone with it
ReadOutcomes ==
    (IF conn = "serial" THEN { SerialRead(rx) }
     ELSE { SocketRead(rx, eof) : eof \in BOOLEAN })
    \cup { ReadOutcome(IoError(k), <<>>) : k \in IoKinds }

\* write_command succeeds: the line reaches the instrument, which processes it;
\* its reply arrives before the deadline of the next read, or after it
WriteOk(cmd) ==
    \E o \in Instrument(full_command(cmd), esr), late \in BOOLEAN :
        /\ late => (o.reply # <<>> /\ late_left > 0)
        /\ late_left' = IF late THEN late_left - 1 ELSE late_left
        /\ wire' = Append(wire, full_command(cmd))
        /\ trace' = Append(trace, Ev("write", full_command(cmd), 0, NoVal))
        /\ esr' = o.esr
        /\ raised' = BitOr(raised, o.raise)
        /\ rx' = IF late THEN rx ELSE rx \o o.reply
        /\ pending' = IF late THEN o.reply ELSE <<>>

\* write_command fails: write_all / flush return an I/O error
WriteFail(cmd, kind) ==
    /\ trace' = Append(trace, Ev("write_err", full_command(cmd), 0, NoVal))
    /\ UNCHANGED <<wire, esr, raised, rx, pending, late_left>>

\* read_response with outcome o; replies that were late are in rx afterwards
ReadWith(o) ==
    /\ trace' = Append(trace, Ev(IF IsErr(o.res) THEN "read_err" ELSE "read", "", 0, o.res.val))
    /\ rx' = o.rest \o pending
    /\ pending' = <<>>
    /\ UNCHANGED <<wire, esr, raised, late_left>>

----------------------------------------------------------------------------
(* lib.rs: the protocol engine *)

SETTLE_MS == 50
RESET_SETTLE_MS == 500
MAX_STORE_INDEX == 49

Channels == {1}
\* u8 store indexes tried by the callers
Indexes == {0, 49, 50, 255}

StoreOps == {"save", "recall", "save_all", "recall_all"}

\* the command line each save / recall operation formats
StoreCommand(name, channel, idx) ==
    CASE name = "save" -> "SAV" \o ToString(channel) \o " " \o ToString(idx)
      [] name = "recall" -> "RCL" \o ToString(channel) \o " " \o ToString(idx)
      [] name = "save_all" -> "*SAV " \o ToString(idx)
      [] name = "recall_all" -> "*RCL " \o ToString(idx)

\* an index check that lets index 50 through
IndexRejected_OffByOne(idx) == idx > MAX_STORE_INDEX + 1

\* the index check of save, recall, save_all and recall_all
IndexRejected(idx) == idx > MAX_STORE_INDEX

\* turn_on_multi / turn_off_multi: the pause after a channel's delay command
MULTI_SETTLE_MS == 100

MultiOps == {"turn_on_multi", "turn_off_multi"}
\* MultiOperationConfig
Action(enable_quick) == [kind |-> "Action", quick |-> enable_quick, ms |-> 0]
DelayMs(ms) == [kind |-> "DelayMs", quick |-> FALSE, ms |-> ms]

\* Option<HashMap<u8, MultiOperationConfig>>
NoOptions == [present |-> FALSE, map |-> <<>>]
SomeOptions(m) == [present |-> TRUE, map |-> m]

\* the option maps the callers pass: none, an empty one, one channel with an
\* action, two channels of which one has a delay
OptionMaps ==
    {<<>>,
     1 :> Action(FALSE),
     1 :> Action(TRUE) @@ 2 :> DelayMs(200)}

OptionSets == {NoOptions} \cup {SomeOptions(m) : m \in OptionMaps}

\* the orders in which a HashMap with these keys may yield them: the hasher
\* is seeded per map, so any order of the keys can come out
IterationOrders(keys) ==
    {s \in [1..Cardinality(keys) -> keys] : \A i, j \in DOMAIN s : i # j => s[i] # s[j]}

\* set_multi_on_action / set_multi_off_action: the line they format
ActionCommand(on, channel, action) ==
    (IF on THEN "ONACTION" ELSE "OFFACTION") \o ToString(channel) \o " " \o action

\* set_multi_on_delay / set_multi_off_delay: the line they format
DelayCommand(on, channel, ms) ==
    (IF on THEN "ONDELAY" ELSE "OFFDELAY") \o ToString(channel) \o " " \o ToString(ms)

\* the final command of turn_on_multi / turn_off_multi
AggregateCommand(on) == IF on THEN "OPALL 1" ELSE "OPALL 0"

CommandStep(line) == [kind |-> "cmd", line |-> line, ms |-> 0]
SleepStep(ms) == [kind |-> "sleep", line |-> "", ms |-> ms]

\* a loop body that pauses between the mode command and the delay command
ChannelSteps_PauseBetween(on, channel, config) ==
    IF config.kind = "Action"
    THEN <<CommandStep(ActionCommand(on, channel, IF config.quick THEN "QUICK" ELSE "NEVER"))>>
    ELSE <<CommandStep(ActionCommand(on, channel, "DELAY")),
           SleepStep(MULTI_SETTLE_MS),
           CommandStep(DelayCommand(on, channel, config.ms))>>

\* a loop body that also sends the aggregate command for its channel
ChannelSteps_AggregatePerChannel(on, channel, config) ==
    (IF config.kind = "Action"
     THEN <<CommandStep(ActionCommand(on, channel, IF config.quick THEN "QUICK" ELSE "NEVER"))>>
     ELSE <<CommandStep(ActionCommand(on, channel, "DELAY")),
            CommandStep(DelayCommand(on, channel, config.ms)),
            SleepStep(MULTI_SETTLE_MS)>>)
    \o <<CommandStep(AggregateCommand(on))>>

\* the body of the for loop of turn_on_multi / turn_off_multi for one
\* (channel, config) pair
ChannelSteps(on, channel, config) ==
    IF config.kind = "Action"
    THEN <<CommandStep(ActionCommand(on, channel, IF config.quick THEN "QUICK" ELSE "NEVER"))>>
    ELSE <<CommandStep(ActionCommand(on, channel, "DELAY")),
           CommandStep(DelayCommand(on, channel, config.ms)),
           SleepStep(MULTI_SETTLE_MS)>>

RECURSIVE LoopSteps(_, _, _)
\* the for loop over the options map, channels in the order iterated
LoopSteps(on, map, ord) ==
    IF ord = <<>> THEN <<>>
    ELSE ChannelSteps(on, ord[1], map[ord[1]]) \o LoopSteps(on, map, Tail(ord))

\* turn_on_multi / turn_off_multi: the loop when options are given, then the
\* aggregate command
MultiPlan(on, o, ord) ==
    (IF o.present THEN LoopSteps(on, o.map, ord) ELSE <<>>)
    \o <<CommandStep(AggregateCommand(on))>>

\* no multi-channel call has succeeded yet
NoPrev == [op |-> "none", opts |-> NoOptions, lines |-> <<>>]

\* the lines of a call that are not part of a status check
ConfigLines(w) == SelectSeq(w, LAMBDA l : l \notin {"*ESR?\n", "EER?\n"})

\* the state after connect_serial / connect_socket, but for the transport's
\* punctuality
Constructed ==
    /\ conn \in {"serial", "socket"}
    /\ esr \in {0, 128}
    /\ rx = <<>>
    /\ pending = <<>>
    /\ wire = <<>>
    /\ trace = <<>>
    /\ pc = "idle"
    /\ op = "none"
    /\ command = ""
    /\ index = -1
    /\ e = NoResult
    /\ esr_reply = NoVal
    /\ status_val = -1
    /\ eer_code = None
    /\ esr0 = 0
    /\ raised = 0
    /\ result = NoResult
    /\ opts = NoOptions
    /\ order = <<>>
    /\ plan = <<>>
    /\ prev = NoPrev

\* every reply arrives before the deadline of its read, or never
Init == Constructed /\ late_left = 0

\* up to MaxLate replies arrive after the deadline of their read
InitLate == Constructed /\ late_left = MaxLate

\* an entry that does not wait for the call in progress to return
Enter_NotExclusive(name, cmd, idx, first) ==
    /\ op' = name
    /\ command' = cmd
    /\ index' = idx
    /\ pc' = first
    /\ esr0' = esr
    /\ UNCHANGED <<multi, conn, esr, rx, pending, late_left, wire, trace, e, esr_reply,
                   status_val, eer_code, raised, result>>

\* a public operation is entered: fresh locals; every operation takes
\* &mut self, so none starts while another is in progress
Enter(name, cmd, idx, first) ==
    /\ pc = "idle"
    /\ op' = name
    /\ command' = cmd
    /\ index' = idx
    /\ pc' = first
    /\ esr0' = esr
    /\ UNCHANGED <<multi, conn, esr, rx, pending, late_left, wire, trace, e, esr_reply,
                   status_val, eer_code, raised, result>>

\* the call returns r
Finish(r) ==
    /\ result' = r
    /\ pc' = "done"

\* a recovery that forgets the error of the failed query
CheckReturns_DropsOriginal(chk) == Finish(chk)

\* a recovery that always reports the error of the failed query
CheckReturns_KeepsOriginal(chk) ==
    Finish(IF op = "_query_and_check" THEN e ELSE chk)

\* a loop that goes on to the next command after a failed check
CheckReturns_ContinuesOnError(chk) ==
    IF op \in MultiOps /\ plan # <<>>
    THEN pc' = "next" /\ UNCHANGED result
    ELSE Finish(IF op = "_query_and_check"
                THEN (IF chk.tag = "Ok" THEN e ELSE chk)
                ELSE chk)

\* _check_event_status_register returns chk to its caller: _write_and_check
\* passes it on, _query_and_check (lines 174-177) keeps the error of the
\* failed query when the check found nothing
\* the ? of turn_on_multi / turn_off_multi lets the loop go on after a clean
\* check
CheckReturns(chk) ==
    IF op \in MultiOps /\ chk.tag = "Ok" /\ plan # <<>>
    THEN pc' = "next" /\ UNCHANGED result
    ELSE Finish(IF op = "_query_and_check"
                THEN (IF chk.tag = "Ok" THEN e ELSE chk)
                ELSE chk)

\* turn_on / turn_off: _write_and_check of one command
turn_on(channel) == Enter("_write_and_check", "OP" \o ToString(channel) \o " 1", -1, "write")

turn_off(channel) == Enter("_write_and_check", "OP" \o ToString(channel) \o " 0", -1, "write")

\* save, recall, save_all, recall_all
StoreCall(name, channel, idx) ==
    IF IndexRejected(idx)
    THEN /\ pc = "idle"
         /\ op' = name
         /\ command' = ""
         /\ index' = idx
         /\ esr0' = esr
         /\ Finish(InvalidParameter("Store index must be 0-49."))
         /\ UNCHANGED <<multi, conn, esr, rx, pending, late_left, wire, trace, e, esr_reply,
                        status_val, eer_code, raised>>
    ELSE Enter(name, StoreCommand(name, channel, idx), idx, "write")

clear == Enter("clear", "*CLS", -1, "write")

reset == Enter("reset", "*RST", -1, "write")

_query_and_check(cmd) == Enter("_query_and_check", cmd, -1, "q_write")

\* a write step after which clear and reset are verified like any command
WriteCommandOk_AlwaysVerifies ==
    /\ pc = "write"
    /\ WriteOk(command)
    /\ pc' = "settle"
    /\ UNCHANGED <<multi, conn, op, command, index, e, esr_reply, status_val, eer_code, esr0, result>>

\* connection.write_command(command) of _write_and_check, clear and reset
WriteCommandOk ==
    /\ pc = "write"
    /\ WriteOk(command)
    /\ IF op = "clear" THEN Finish(Ok(NoVal))
       ELSE /\ pc' = (IF op = "reset" THEN "rst_sleep" ELSE "settle")
            /\ UNCHANGED result
    /\ UNCHANGED <<multi, conn, op, command, index, e, esr_reply, status_val, eer_code, esr0>>

WriteCommandFail ==
    /\ pc = "write"
    /\ \E k \in IoKinds :
        /\ WriteFail(command, k)
        /\ Finish(IoError(k))
    /\ UNCHANGED <<multi, conn, op, command, index, e, esr_reply, status_val, eer_code, esr0>>

\* a _write_and_check that does not wait before the status check
Settle_NoSleep ==
    /\ pc = "settle"
    /\ pc' = "esr_write"
    /\ UNCHANGED <<multi, conn, esr, rx, pending, late_left, wire, trace, op, command, index, e,
                   esr_reply, status_val, eer_code, esr0, raised, result>>

\* _write_and_check: thread::sleep(50 ms) before the status check
Settle ==
    /\ pc = "settle"
    /\ trace' = Append(trace, Ev("sleep", "", SETTLE_MS, NoVal))
    /\ pc' = "esr_write"
    /\ UNCHANGED <<multi, conn, esr, rx, pending, late_left, wire, op, command, index, e, esr_reply,
                   status_val, eer_code, esr0, raised, result>>

\* reset: thread::sleep(500 ms), then Ok(())
ResetSleep ==
    /\ pc = "rst_sleep"
    /\ trace' = Append(trace, Ev("sleep", "", RESET_SETTLE_MS, NoVal))
    /\ Finish(Ok(NoVal))
    /\ UNCHANGED <<multi, conn, esr, rx, pending, late_left, wire, op, command, index, e, esr_reply,
                   status_val, eer_code, esr0, raised>>

\* _query_and_check: connection.query(command), the write
QueryWriteOk ==
    /\ pc = "q_write"
    /\ WriteOk(command)
    /\ pc' = "q_read"
    /\ UNCHANGED <<multi, conn, op, command, index, e, esr_reply, status_val, eer_code, esr0, result>>

QueryWriteFail ==
    /\ pc = "q_write"
    /\ \E k \in IoKinds :
        /\ WriteFail(command, k)
        /\ e' = IoError(k)
    /\ pc' = "esr_write"
    /\ UNCHANGED <<multi, conn, op, command, index, esr_reply, status_val, eer_code, esr0, result>>

\* a _query_and_check that runs the status check after a successful query too
QueryRead_AlwaysChecks ==
    /\ pc = "q_read"
    /\ \E o \in ReadOutcomes :
        /\ ReadWith(o)
        /\ e' = IF IsErr(o.res) THEN o.res ELSE Ok(Trim(o.res.val))
        /\ pc' = "esr_write"
        /\ UNCHANGED result
    /\ UNCHANGED <<multi, conn, op, command, index, esr_reply, status_val, eer_code, esr0>>

\* a _query_and_check that returns a malformed response at once and runs
\* the status check only after a transport failure
QueryRead_ParseReturnsAtOnce ==
    /\ pc = "q_read"
    /\ \E o \in ReadOutcomes :
        /\ ReadWith(o)
        /\ IF IsErr(o.res) /\ o.res.tag # "Parse"
           THEN /\ e' = o.res
                /\ pc' = "esr_write"
                /\ UNCHANGED result
           ELSE /\ Finish(IF IsErr(o.res) THEN o.res ELSE Ok(Trim(o.res.val)))
                /\ e' = (IF IsErr(o.res) THEN o.res ELSE e)
    /\ UNCHANGED <<multi, conn, op, command, index, esr_reply, status_val, eer_code, esr0>>

\* _query_and_check: connection.query(command), the read, and the match on it
QueryRead ==
    /\ pc = "q_read"
    /\ \E o \in ReadOutcomes :
        /\ ReadWith(o)
        /\ IF IsErr(o.res)
           THEN /\ e' = o.res
                /\ pc' = "esr_write"
                /\ UNCHANGED result
           ELSE /\ Finish(Ok(Trim(o.res.val)))
                /\ UNCHANGED e
    /\ UNCHANGED <<multi, conn, op, command, index, esr_reply, status_val, eer_code, esr0>>

\* _check_event_status_register: connection.query("*ESR?"), the write
EsrWriteOk ==
    /\ pc = "esr_write"
    /\ WriteOk("*ESR?")
    /\ pc' = "esr_read"
    /\ UNCHANGED <<multi, conn, op, command, index, e, esr_reply, status_val, eer_code, esr0, result>>

EsrWriteFail ==
    /\ pc = "esr_write"
    /\ \E k \in IoKinds :
        /\ WriteFail("*ESR?", k)
        /\ CheckReturns(EsrQueryFailed(IoError(k), command))
    /\ UNCHANGED <<multi, conn, op, command, index, e, esr_reply, status_val, eer_code, esr0>>

\* a status check that asks EER? whenever bit 4 is set, whatever bit 5 is
EsrRead_EerWheneverBit4 ==
    /\ pc = "esr_read"
    /\ \E o \in ReadOutcomes :
        /\ ReadWith(o)
        /\ IF IsErr(o.res)
           THEN /\ CheckReturns(EsrQueryFailed(o.res, command))
                /\ UNCHANGED <<esr_reply, status_val>>
           ELSE LET parsed == ParseU8(Trim(o.res.val))
                    found == InspectStatus(parsed.val, command, NoResult)
                IN /\ esr_reply' = o.res.val
                   /\ IF ~parsed.ok
                      THEN /\ CheckReturns(ParseError("Could not parse ESR value", o.res.val, command))
                           /\ UNCHANGED status_val
                      ELSE /\ status_val' = parsed.val
                           /\ IF BitSet(parsed.val, 4)
                              THEN pc' = "eer_write" /\ UNCHANGED result
                              ELSE CheckReturns(found)
    /\ UNCHANGED <<multi, conn, op, command, index, e, eer_code, esr0>>

\* _check_event_status_register, lines 97-148 after the write of *ESR?: the
\* read, the parse of the reply and the inspection of the bits; only the
\* execution-error bit needs a further exchange
EsrRead ==
    /\ pc = "esr_read"
    /\ \E o \in ReadOutcomes :
        /\ ReadWith(o)
        /\ IF IsErr(o.res)
           THEN /\ CheckReturns(EsrQueryFailed(o.res, command))
                /\ UNCHANGED <<esr_reply, status_val>>
           ELSE LET parsed == ParseU8(Trim(o.res.val))
                    found == InspectStatus(parsed.val, command, NoResult)
                IN /\ esr_reply' = o.res.val
                   /\ IF ~parsed.ok
                      THEN /\ CheckReturns(ParseError("Could not parse ESR value", o.res.val, command))
                           /\ UNCHANGED status_val
                      ELSE /\ status_val' = parsed.val
                           /\ IF found = NoResult
                              THEN pc' = "eer_write" /\ UNCHANGED result
                              ELSE CheckReturns(found)
    /\ UNCHANGED <<multi, conn, op, command, index, e, eer_code, esr0>>

\* _check_event_status_register: connection.query("EER?"), the write
EerWriteOk ==
    /\ pc = "eer_write"
    /\ WriteOk("EER?")
    /\ pc' = "eer_read"
    /\ UNCHANGED <<multi, conn, op, command, index, e, esr_reply, status_val, eer_code, esr0, result>>

EerWriteFail ==
    /\ pc = "eer_write"
    /\ \E k \in IoKinds :
        /\ WriteFail("EER?", k)
        /\ CheckReturns(InspectStatus(status_val, command, IoError(k)))
    /\ UNCHANGED <<multi, conn, op, command, index, e, esr_reply, status_val, eer_code, esr0>>

\* _check_event_status_register, lines 124-136 after the write of EER?
EerRead ==
    /\ pc = "eer_read"
    /\ \E o \in ReadOutcomes :
        /\ ReadWith(o)
        /\ IF IsErr(o.res)
           THEN /\ CheckReturns(InspectStatus(status_val, command, o.res))
                /\ UNCHANGED eer_code
           ELSE LET eer_str == Trim(o.res.val)
                    parsed == ParseI32(eer_str)
                IN IF ~parsed.ok
                   THEN /\ CheckReturns(InspectStatus(status_val, command,
                               ParseError("Failed to parse EER value", eer_str, "")))
                        /\ UNCHANGED eer_code
                   ELSE /\ eer_code' = Some(parsed.val)
                        /\ CheckReturns(InspectStatus(status_val, command,
                               ResolveErrorCode(parsed.val, command)))
    /\ UNCHANGED <<multi, conn, op, command, index, e, esr_reply, status_val, esr0>>

\* turn_on_multi / turn_off_multi are entered with options o, which the
\* HashMap yields in order ord
MultiEnter(name, on, o, ord) ==
    /\ pc = "idle"
    /\ ord \in IterationOrders(DOMAIN o.map)
    /\ op' = name
    /\ opts' = o
    /\ order' = ord
    /\ plan' = MultiPlan(on, o, ord)
    /\ command' = ""
    /\ index' = -1
    /\ pc' = "next"
    /\ esr0' = esr
    /\ UNCHANGED <<prev, conn, esr, rx, pending, late_left, wire, trace, e, esr_reply,
                   status_val, eer_code, raised, result>>

turn_on_multi(o, ord) == MultiEnter("turn_on_multi", TRUE, o, ord)

turn_off_multi(o, ord) == MultiEnter("turn_off_multi", FALSE, o, ord)

\* the next set_multi_* call or the aggregate command: a _write_and_check
\* with fresh locals
MultiCommand ==
    /\ pc = "next"
    /\ plan[1].kind = "cmd"
    /\ command' = plan[1].line
    /\ plan' = Tail(plan)
    /\ esr_reply' = NoVal
    /\ status_val' = -1
    /\ eer_code' = None
    /\ pc' = "write"
    /\ UNCHANGED <<opts, order, prev, conn, esr, rx, pending, late_left, wire, trace, op,
                   index, e, esr0, raised, result>>

\* thread::sleep(100 ms) at the end of the loop body of a delay configuration
MultiSleep ==
    /\ pc = "next"
    /\ plan[1].kind = "sleep"
    /\ trace' = Append(trace, Ev("sleep", "", plan[1].ms, NoVal))
    /\ plan' = Tail(plan)
    /\ UNCHANGED <<opts, order, prev, conn, esr, rx, pending, late_left, wire, pc, op,
                   command, index, e, esr_reply, status_val, eer_code, esr0, raised, result>>

\* the caller has the result; the engine is ready for the next call
Return ==
    /\ pc = "done"
    /\ pc' = "idle"
    /\ op' = "none"
    /\ command' = ""
    /\ e' = NoResult
    /\ esr_reply' = NoVal
    /\ status_val' = -1
    /\ eer_code' = None
    /\ index' = -1
    /\ esr0' = 0
    /\ raised' = 0
    /\ result' = NoResult
    /\ wire' = <<>>
    /\ trace' = <<>>
    /\ opts' = NoOptions
    /\ order' = <<>>
    /\ plan' = <<>>
    /\ prev' = (IF op \notin MultiOps THEN prev
                ELSE IF result.tag = "Ok"
                     THEN [op |-> op, opts |-> opts, lines |-> ConfigLines(wire)]
                     ELSE NoPrev)
    /\ UNCHANGED <<conn, esr, rx, pending, late_left>>

Next ==
    \/ \E c \in Channels : turn_on(c)
    \/ \E c \in Channels : turn_off(c)
    \/ \E name \in StoreOps, c \in Channels, i \in Indexes : StoreCall(name, c, i)
    \/ clear
    \/ reset
    \/ \E q \in QueryCommands : _query_and_check(q)
    \/ WriteCommandOk
    \/ WriteCommandFail
    \/ Settle
    \/ ResetSleep
    \/ QueryWriteOk
    \/ QueryWriteFail
    \/ QueryRead
    \/ EsrWriteOk
    \/ EsrWriteFail
    \/ EsrRead
    \/ EerWriteOk
    \/ EerWriteFail
    \/ EerRead
    \/ Return

Spec == Init /\ [][Next]_vars

\* the operations of a session whose transport may deliver replies late
NextLate ==
    \/ \E c \in Channels : turn_on(c)
    \/ _query_and_check("OP1?")
    \/ WriteCommandOk
    \/ WriteCommandFail
    \/ Settle
    \/ QueryWriteOk
    \/ QueryWriteFail
    \/ QueryRead
    \/ EsrWriteOk
    \/ EsrWriteFail
    \/ EsrRead
    \/ EerWriteOk
    \/ EerWriteFail
    \/ EerRead
    \/ Return

SpecLate == InitLate /\ [][NextLate]_vars

\* the multi-channel operations
NextMulti ==
    \/ \E o \in OptionSets : \E ord \in IterationOrders(DOMAIN o.map) : turn_on_multi(o, ord)
    \/ \E o \in OptionSets : \E ord \in IterationOrders(DOMAIN o.map) : turn_off_multi(o, ord)
    \/ MultiCommand
    \/ MultiSleep
    \/ WriteCommandOk
    \/ WriteCommandFail
    \/ Settle
    \/ EsrWriteOk
    \/ EsrWriteFail
    \/ EsrRead
    \/ EerWriteOk
    \/ EerWriteFail
    \/ EerRead
    \/ Return

SpecMulti == Init /\ [][NextMulti]_vars

----------------------------------------------------------------------------
(* Properties *)

\* operations that run _write_and_check
ExecOps == {"_write_and_check"} \cup StoreOps

\* an execute(C) has returned after trying to send C
ExecDone == pc = "done" /\ op \in ExecOps /\ result.tag # "InvalidParameter"

\* a query_checked(C) has returned
QueryDone == pc = "done" /\ op = "_query_and_check"

EventsOf(kinds) == SelectSeq(trace, LAMBDA ev : ev.ev \in kinds)
WritesOf(line) == SelectSeq(trace, LAMBDA ev : ev.ev \in {"write", "write_err"} /\ ev.line = line)
OnWire(line) == \E i \in 1..Len(wire) : wire[i] = line

\* C1: when C was sent and the value read by the following *ESR? query has
\* bits 2, 3, 4 and 5 clear, execute(C) returns success whatever bits 0, 1, 6
\* and 7 are, and the only line read from the instrument is the *ESR? reply.
C1_CleanStatusSucceeds ==
    (ExecDone /\ status_val >= 0 /\ ~HasErrorBit(status_val))
        => /\ result = Ok(NoVal)
           /\ Len(EventsOf({"read", "read_err"})) = 1

C1_Witness ==
    /\ ExecDone
    /\ status_val = 195
    /\ result.tag = "Ok"

\* C2: when bit 4 of the value read decides and EER? answers a code of the
\* Error Code Table, execute(C) fails with ExecutionError carrying that code
\* and exactly the table's category and description for it.
C2_TableCodeResolved ==
    (ExecDone /\ status_val >= 0 /\ BitSet(status_val, 4)
              /\ eer_code # None /\ eer_code[1] \in TableCodes)
        => /\ result.tag = "ExecutionError"
           /\ result.code = eer_code[1]
           /\ result.etype = EXECUTION_ERROR_CODES[eer_code[1]][1]
           /\ result.desc = EXECUTION_ERROR_CODES[eer_code[1]][2]
           /\ (eer_code[1] = 100 => result.etype = "NumericError")
           /\ (eer_code[1] = 0 => result.etype = "OK")

C2_Witness ==
    /\ ExecDone
    /\ BitSet(status_val, 4)
    /\ eer_code = Some(200)
    /\ result.etype = "AccessDenied"

\* C3: when EER? answers an integer that is not in the Error Code Table,
\* execute(C) fails with UndefinedDeviceErrorCode carrying that integer and
\* the text of C, never with ExecutionError and never with success.
C3_UnknownCodeUndefined ==
    (ExecDone /\ eer_code # None /\ eer_code[1] \notin TableCodes)
        => /\ result = UndefinedDeviceErrorCode(eer_code[1], command)
           /\ result.tag = "UndefinedDeviceErrorCode"
           /\ result.cmd = command /\ command # ""

C3_Witness ==
    /\ ExecDone
    /\ eer_code = Some(999)
    /\ result.tag = "UndefinedDeviceErrorCode"
    /\ result.code = 999
    /\ result.cmd = "OP1 1"

\* C4: the error execute(C) reports is decided by the highest set bit among
\* bit 5, bit 4, bit 3, bit 2 of the value read: bit 5 gives CommandError even
\* when bit 4 is set as well, bit 4 gives the outcome of the EER? exchange,
\* bit 3 gives VerifyTimeoutError and bit 2 gives QueryError.
C4_StatusBitPrecedence ==
    (ExecDone /\ status_val >= 0)
        => /\ BitSet(status_val, 5)
                => (result = CommandError(command) /\ ~OnWire("EER?\n"))
           /\ (~BitSet(status_val, 5) /\ BitSet(status_val, 4))
                => /\ result.tag \in {"ExecutionError", "UndefinedDeviceErrorCode", "Io", "Parse"}
                   /\ Len(WritesOf("EER?\n")) = 1
           /\ (~BitSet(status_val, 5) /\ ~BitSet(status_val, 4) /\ BitSet(status_val, 3))
                => result = VerifyTimeoutError(command)
           /\ (~BitSet(status_val, 5) /\ ~BitSet(status_val, 4) /\ ~BitSet(status_val, 3)
                                      /\ BitSet(status_val, 2))
                => result = QueryError(command)

C4_Witness ==
    /\ ExecDone
    /\ BitSet(status_val, 5) /\ BitSet(status_val, 4)
    /\ result.tag = "CommandError"

\* the query of a query_checked(C) failed at the channel level and the
\* recovery read a status value
Recovered == QueryDone /\ e # NoResult /\ status_val >= 0

C6_ClearStatusKeepsOriginal ==
    (Recovered /\ ~HasErrorBit(status_val))
        => /\ result = e
           /\ result.tag \in {"Io", "Parse"}
           /\ result.desc # "Failed to query *ESR?"

C6_Witness ==
    /\ Recovered
    /\ status_val = 195
    /\ result = IoError("BrokenPipe")
    /\ trace[1].ev = "write_err"

\* the errors the instrument reports through its registers
DeviceErrorTags == {"CommandError", "ExecutionError", "UndefinedDeviceErrorCode",
                    "VerifyTimeoutError", "QueryError"}

\* C7, as stated: a query_checked(C) whose query fails and whose recovery
\* read shows an error bit returns a device-reported error.

C7_AlwaysDeviceError ==
    (Recovered /\ HasErrorBit(status_val)) => result.tag \in DeviceErrorTags

\* C7, amended: such a call returns what the status check produced, not the
\* error of the failed query: the device-reported error chosen by bit
\* precedence (ExecutionError 100 "NumericError" when bit 4 decides and EER?
\* answers 100), or, when bit 4 decides and the EER? exchange itself fails,
\* the failure of that exchange.
C7_StatusErrorReplacesOriginal ==
    (Recovered /\ HasErrorBit(status_val))
        => /\ BitSet(status_val, 5) => result = CommandError(command)
           /\ (~BitSet(status_val, 5) /\ BitSet(status_val, 4))
                => /\ eer_code # None
                        => /\ result.tag \in {"ExecutionError", "UndefinedDeviceErrorCode"}
                           /\ result.code = eer_code[1]
                   /\ eer_code = Some(100)
                        => result = ExecutionError(100, "NumericError",
                                        EXECUTION_ERROR_CODES[100][2])
                   /\ eer_code = None
                        => /\ result.tag \in {"Io", "Parse"}
                           /\ trace[Len(trace)].ev \in {"write_err", "read_err", "read"}
                           /\ Len(WritesOf("EER?\n")) = 1
                           /\ (result.tag = "Parse" => result.desc \in
                                   {"Failed to parse EER value", "Invalid UTF-8 sequence"})
           /\ (~BitSet(status_val, 5) /\ ~BitSet(status_val, 4) /\ BitSet(status_val, 3))
                => result = VerifyTimeoutError(command)
           /\ (~BitSet(status_val, 5) /\ ~BitSet(status_val, 4) /\ ~BitSet(status_val, 3))
                => result = QueryError(command)

C7_Witness ==
    /\ Recovered
    /\ BitSet(status_val, 4)
    /\ eer_code = Some(100)
    /\ result.etype = "NumericError"
    /\ e.tag = "Io"

\* C8: every execute(C) hands the line of C to the transport exactly once;
\* if that write fails the call returns the failure and does nothing else; if
\* it succeeds the call sleeps the settle interval, then sends *ESR? exactly
\* once, and the status value it inspects is parsed from the reply read in
\* this very call.
C8_WriteThenVerify ==
    ExecDone
        => /\ Len(trace) >= 1
           /\ trace[1].ev \in {"write", "write_err"}
           /\ trace[1].line = full_command(command)
           /\ Len(WritesOf(full_command(command))) = 1
           /\ trace[1].ev = "write_err"
                => (Len(trace) = 1 /\ wire = <<>> /\ result.tag = "Io" /\ status_val = -1)
           /\ trace[1].ev = "write"
                => /\ Len(trace) >= 3
                   /\ trace[2] = Ev("sleep", "", SETTLE_MS, NoVal)
                   /\ trace[3].ev \in {"write", "write_err"}
                   /\ trace[3].line = "*ESR?\n"
                   /\ Len(WritesOf("*ESR?\n")) = 1
                   /\ Len(EventsOf({"sleep"})) = 1
                   /\ trace[3].ev = "write" => (Len(trace) >= 4 /\ trace[4].ev \in {"read", "read_err"})
                   /\ status_val >= 0
                        => /\ trace[4].ev = "read"
                           /\ ParseU8(Trim(trace[4].val)) = [ok |-> TRUE, val |-> status_val]

C8_Witness ==
    /\ ExecDone
    /\ Len(trace) = 4
    /\ trace[2].ev = "sleep"
    /\ trace[4].ev = "read"
    /\ status_val = 32
    /\ result.tag = "CommandError"

\* C9: reset() writes only the *RST line and then sleeps the long settle
\* delay, clear() writes only the *CLS line; neither sends *ESR? or EER?,
\* reads anything or returns an error other than the failure of its write.
C9_ResetClearUnverified ==
    /\ (pc = "done" /\ op = "reset")
        => /\ \/ (trace = <<Ev("write", "*RST\n", 0, NoVal),
                            Ev("sleep", "", RESET_SETTLE_MS, NoVal)>>
                  /\ wire = <<"*RST\n">> /\ result = Ok(NoVal))
              \/ (trace = <<Ev("write_err", "*RST\n", 0, NoVal)>>
                  /\ wire = <<>> /\ result.tag = "Io")
           /\ status_val = -1
           /\ esr = esr0
    /\ (pc = "done" /\ op = "clear")
        => /\ \/ (trace = <<Ev("write", "*CLS\n", 0, NoVal)>>
                  /\ wire = <<"*CLS\n">> /\ result = Ok(NoVal))
              \/ (trace = <<Ev("write_err", "*CLS\n", 0, NoVal)>>
                  /\ wire = <<>> /\ result.tag = "Io")
           /\ status_val = -1

C9_Witness ==
    /\ pc = "done" /\ op = "reset"
    /\ HasErrorBit(esr)
    /\ result = Ok(NoVal)
    /\ Len(trace) = 2

\* C10: save, recall, save_all and recall_all called with an index above 49
\* return InvalidParameter without touching the transport; called with an
\* index in 0..49 they hand their command line to the transport.
C10_StoreIndexBound ==
    (pc = "done" /\ op \in StoreOps)
        => IF index > 49
           THEN /\ result = InvalidParameter("Store index must be 0-49.")
                /\ trace = <<>> /\ wire = <<>>
           ELSE /\ index >= 0
                /\ result.tag # "InvalidParameter"
                /\ Len(trace) >= 1
                /\ trace[1].ev \in {"write", "write_err"}
                /\ \E c \in Channels : trace[1].line = full_command(StoreCommand(op, c, index))
                /\ trace[1].ev = "write" => wire[1] = trace[1].line

C10_Witness ==
    /\ pc = "done" /\ op = "save"
    /\ index = 49
    /\ Len(wire) >= 1
    /\ wire[1] = "SAV1 49\n"

----------------------------------------------------------------------------
(* Properties of the multi-channel operations *)

\* the current call is turn_on_multi
MultiOn == op = "turn_on_multi"

\* channels the options of the current call configure with a delay
DelayChannels == {ch \in DOMAIN opts.map : opts.map[ch].kind = "DelayMs"}
ModeLine(ch) == full_command(ActionCommand(MultiOn, ch, "DELAY"))
DelayLine(ch) == full_command(DelayCommand(MultiOn, ch, opts.map[ch].ms))
AggregateLine == full_command(AggregateCommand(MultiOn))

\* the pause of the loop body, and the event of sending a command that is
\* not part of a status check
MultiPause == Ev("sleep", "", MULTI_SETTLE_MS, NoVal)
CheckSettle == Ev("sleep", "", SETTLE_MS, NoVal)
IsCommandWrite(ev) ==
    ev.ev \in {"write", "write_err"} /\ ev.line \notin {"*ESR?\n", "EER?\n"}
CommandWrites == SelectSeq(trace, IsCommandWrite)
Between(i, k, P(_)) == \E j \in (i + 1)..(k - 1) : P(trace[j])
IsPause(ev) == ev = MultiPause
IsSettle(ev) == ev = CheckSettle

\* C11 as stated: for a channel configured with a delay, the delay-value
\* command is sent only after the mode-set command and after the fixed
\* 100 ms pause of the loop body, which lies between the two commands
C11_PauseBetweenModeAndDelay ==
    op \in MultiOps =>
        \A ch \in DelayChannels : \A k \in 1..Len(trace) :
            (IsCommandWrite(trace[k]) /\ trace[k].line = DelayLine(ch))
            => \E i \in 1..(k - 1) :
                /\ trace[i] = Ev("write", ModeLine(ch), 0, NoVal)
                /\ Between(i, k, IsPause)

\* C11, amended: the delay-value command follows the mode-set command with
\* nothing but that command's own check (50 ms settle, *ESR? exchange) in
\* between; the 100 ms pause comes after the delay-value command and its
\* check, and before the next command of the call
C11_PauseAfterDelay ==
    op \in MultiOps =>
        \A k \in 1..Len(trace) :
            /\ \A ch \in DelayChannels :
                (IsCommandWrite(trace[k]) /\ trace[k].line = DelayLine(ch))
                => \E i \in 1..(k - 1) :
                    /\ trace[i] = Ev("write", ModeLine(ch), 0, NoVal)
                    /\ Between(i, k, IsSettle)
                    /\ ~Between(i, k, IsPause)
                    /\ ~Between(i, k, IsCommandWrite)
            /\ trace[k] = MultiPause
                => \E j \in 1..(k - 1) : \E ch \in DelayChannels :
                    /\ trace[j] = Ev("write", DelayLine(ch), 0, NoVal)
                    /\ Between(j, k, IsSettle)
                    /\ ~Between(j, k, IsPause)
                    /\ ~Between(j, k, IsCommandWrite)
            /\ IsCommandWrite(trace[k])
                => \A j \in 1..(k - 1) :
                    (/\ IsCommandWrite(trace[j])
                     /\ \E ch \in DelayChannels : trace[j].line = DelayLine(ch)
                     /\ ~Between(j, k, IsCommandWrite))
                    => Between(j, k, IsPause)

\* a call with a delay channel has sent every command and returned success
C11_Witness ==
    /\ pc = "done" /\ op = "turn_off_multi" /\ result.tag = "Ok"
    /\ DelayChannels = {2}
    /\ \E k \in 1..Len(trace) : trace[k] = MultiPause
    /\ OnWire("OFFACTION2 DELAY\n") /\ OnWire("OFFDELAY2 200\n") /\ OnWire("OPALL 0\n")

\* C12 as stated: every call of turn_on_multi / turn_off_multi sends the
\* aggregate command exactly once, after every per-channel command
C12_AggregateExactlyOnce ==
    (pc = "done" /\ op \in MultiOps)
    => /\ Len(WritesOf(AggregateLine)) = 1
       /\ CommandWrites[Len(CommandWrites)].line = AggregateLine

\* C12, amended: a call sends the aggregate command at most once and only
\* after every per-channel command of its options was sent and checked
\* clean; a call that returns success has sent it exactly once, as the last
\* command, and so has every call without per-channel commands whose
\* aggregate command could be written; a call in which a per-channel command
\* failed has not sent it
C12_AggregateOnceAfterConfiguration ==
    op \in MultiOps =>
        LET n == Len(CommandWrites)
            planned == MultiPlan(MultiOn, opts, order)
            lines == SelectSeq(planned, LAMBDA st : st.kind = "cmd")
        IN /\ Len(WritesOf(AggregateLine)) <= 1
           /\ n <= Len(lines)
           /\ \A i \in 1..n : CommandWrites[i].line = full_command(lines[i].line)
           /\ \A i \in 1..n : CommandWrites[i].line = AggregateLine <=> i = Len(lines)
           /\ (pc = "done" /\ result.tag = "Ok")
                => (n = Len(lines) /\ Len(WritesOf(AggregateLine)) = 1)
           /\ (pc = "done" /\ n < Len(lines))
                => (IsErr(result) /\ Len(WritesOf(AggregateLine)) = 0)

\* a call over two channels has returned success
C12_Witness ==
    /\ pc = "done" /\ op = "turn_on_multi" /\ result.tag = "Ok"
    /\ DOMAIN opts.map = {1, 2}
    /\ Len(WritesOf("OPALL 1\n")) = 1
    /\ Len(CommandWrites) = 4

\* C17: a call of turn_on_multi / turn_off_multi that succeeds right after a
\* successful call of the same operation with an equal options map has sent
\* the same command lines in the same order
C17_EqualMappingsSameLines ==
    (/\ pc = "done" /\ op \in MultiOps /\ result.tag = "Ok"
     /\ prev.op = op /\ prev.opts = opts)
    => ConfigLines(wire) = prev.lines

----------------------------------------------------------------------------
(* Properties of the transport, the recovery and the status check *)

\* an event without its outcome: what was done on the transport
Norm(ev) ==
    <<(IF ev.ev \in {"write", "write_err"} THEN "write"
       ELSE IF ev.ev \in {"read", "read_err"} THEN "read" ELSE ev.ev),
      ev.line>>
Shape(t) == [i \in 1..Len(t) |-> Norm(t[i])]
IsPrefix(a, b) == Len(a) <= Len(b) /\ \A i \in 1..Len(a) : a[i] = b[i]

\* the status check: *ESR? and its read, EER? and its read
CheckCycle == <<<<"write", "*ESR?\n">>, <<"read", "">>, <<"write", "EER?\n">>, <<"read", "">>>>

\* the command/verify cycles of an operation o on command cmd
Cycles(o, cmd) ==
    IF o \in ExecOps
    THEN {<<<<"write", full_command(cmd)>>, <<"sleep", "">>>> \o CheckCycle}
    ELSE IF o = "_query_and_check"
    THEN {<<<<"write", full_command(cmd)>>, <<"read", "">>>> \o CheckCycle,
          <<<<"write", full_command(cmd)>>>> \o CheckCycle}
    ELSE IF o = "reset" THEN {<<<<"write", full_command(cmd)>>, <<"sleep", "">>>>}
    ELSE IF o = "clear" THEN {<<<<"write", full_command(cmd)>>>>}
    ELSE {<<>>}

LineOf(bytes) ==
    SelectSeq(SubSeq(bytes, 1, FirstLF(bytes) - 1), LAMBDA c : c # CR)

\* C14: every line written is the command and one newline, and a response
\* line that arrives in time is delivered without its terminator, without
\* any carriage return and without surrounding whitespace
C14_FramingRoundTrip ==
    [][/\ (wire' # wire /\ pc' # "idle")
            => \E c \in {command, "*ESR?", "EER?"} : wire' = Append(wire, c \o "\n")
       /\ (pc = "q_read" /\ pc' = "done" /\ FirstLF(rx) > 0)
            => result' = Ok(Trim(LineOf(rx)))]_vars

\* C15: on either transport, a read of the query response whose deadline
\* passes before a terminator arrived returns the bytes collected so far,
\* trimmed; only a failure of the transport itself is an error
C15_DeadlineReturnsPartial ==
    [][(pc = "q_read" /\ FirstLF(rx) = 0 /\ ~HasBad(rx))
        => \/ pc' = "done" /\ result' = Ok(Trim(SelectSeq(rx, LAMBDA c : c # CR)))
           \/ e'.tag = "Io" /\ e'.desc \in IoKinds]_vars

\* a query of the current call has failed
QueryFailed == op = "_query_and_check" /\ e # NoResult
\* the events of the call that follow the failed query
RecoverySteps ==
    SubSeq(trace, (IF trace[1].ev = "write_err" THEN 2 ELSE 3), Len(trace))
\* the steps are those of one status check, as far as it got
IsStatusCheck(t) ==
    /\ Len(t) >= 1
    /\ IsPrefix(Shape(t), CheckCycle)
    /\ \A i \in 1..(Len(t) - 1) : t[i].ev \in {"write", "read"}

\* C16 as stated: a query that failed with a parse error is not handled by
\* the recovery steps that handle a query that failed with an I/O error
C16_ParseRecoveredDifferently ==
    (pc = "done" /\ QueryFailed /\ e.tag = "Parse")
        => ~(/\ IsStatusCheck(RecoverySteps)
             /\ (status_val >= 0 /\ ~HasErrorBit(status_val)) => result = e)

\* C16, amended: a failed query is handled by the same recovery steps
\* whatever the kind of its error, parse or I/O: the status check runs, the
\* error of the failed query is returned when the check finds no error bit,
\* and what the check produced is returned otherwise
C16_UniformRecovery ==
    (pc = "done" /\ QueryFailed)
        => /\ e.tag \in {"Io", "Parse"}
           /\ IsStatusCheck(RecoverySteps)
           /\ (status_val >= 0 /\ ~HasErrorBit(status_val)) => result = e
           /\ (status_val >= 0 /\ HasErrorBit(status_val))
                => (result.tag \in DeviceErrorTags \/ Len(WritesOf("EER?\n")) = 1)
           /\ status_val < 0
                => result.desc \in {"Failed to query *ESR?", "Could not parse ESR value"}

\* a malformed response went through the status check, which found nothing
C16_Witness ==
    /\ pc = "done" /\ QueryFailed /\ e.tag = "Parse"
    /\ conn = "serial"
    /\ status_val = 0
    /\ result = e
    /\ OnWire("*ESR?\n")

\* a status check of the current call has read the register
Verified == pc = "done" /\ status_val >= 0

\* C18 as stated: a status check sends EER? exactly when the value it read
\* has bit 4 set
C18_EerIffExecutionBit ==
    /\ Verified => (Len(WritesOf("EER?\n")) = 1 <=> BitSet(status_val, 4))
    /\ status_val < 0 => Len(WritesOf("EER?\n")) = 0

\* C18, amended: a status check sends EER?, once, exactly when the value it
\* read has bit 4 set and bit 5 clear; it sends none when bit 4 is clear,
\* none when bit 5 is set as well, and none before a value was read
C18_EerIffExecutionBitDecides ==
    /\ Verified
        => /\ Len(WritesOf("EER?\n")) <= 1
           /\ Len(WritesOf("EER?\n")) = 1
                <=> (BitSet(status_val, 4) /\ ~BitSet(status_val, 5))
    /\ status_val < 0 => Len(WritesOf("EER?\n")) = 0

\* bits 4 and 5 were read together: the call returned without asking EER?
C18_Witness ==
    /\ Verified /\ op \in ExecOps
    /\ status_val = 48
    /\ result = CommandError(command)
    /\ ~OnWire("EER?\n")

\* C19: an execute(C) whose status check read a value with any of bits 2-5
\* set returns an error, whatever the EER? exchange yields: a code of the
\* table (code 0 included), an unknown code, an unparsable reply or a
\* failure of the transport
C19_ErrorBitNeverSucceeds ==
    (ExecDone /\ status_val >= 0 /\ HasErrorBit(status_val))
        => /\ IsErr(result)
           /\ (eer_code # None /\ eer_code[1] \in TableCodes)
                => result.tag = "ExecutionError"
           /\ (eer_code # None /\ eer_code[1] \notin TableCodes)
                => result.tag = "UndefinedDeviceErrorCode"
           /\ (eer_code = None /\ Len(WritesOf("EER?\n")) = 1)
                => result.tag \in {"Io", "Parse"}

\* EER? answered 0: the call still fails
C19_Witness ==
    /\ ExecDone
    /\ status_val = 16
    /\ eer_code = Some(0)
    /\ result.tag = "ExecutionError" /\ result.etype = "OK"

\* C20: the call that reports a device error leaves the register empty, so
\* every bit of the value it read is consumed, the bits of lower precedence
\* too; the next call starts from that register, and an execute(C) that
\* starts from an empty register and during which the instrument raises no
\* error bit reports no device error: it succeeds once it has read the
\* register
C20_DeviceErrorReportedOnce ==
    /\ [](/\ (pc = "done" /\ result.tag \in DeviceErrorTags) => esr = 0
          /\ (ExecDone /\ esr0 = 0 /\ ~HasErrorBit(raised))
                => /\ result.tag \notin DeviceErrorTags
                   /\ status_val >= 0 => (status_val = raised /\ result = Ok(NoVal)))
    /\ [][/\ (pc = "idle" /\ pc' # "idle") => esr0' = esr
          /\ pc = "done" => (pc' = "idle" /\ esr' = esr)]_vars

\* a syntax error was reported from a value that also held the execution
\* error bit, and the register is empty afterwards
C20_Witness ==
    /\ ExecDone
    /\ status_val = 48
    /\ result = CommandError(command)
    /\ esr = 0

----------------------------------------------------------------------------
(* Properties of stale flags, aborted sequences and silent instruments *)

\* the register is the same when a call returns and when the next one starts
RegisterCarriedOver ==
    /\ (pc = "idle" /\ pc' # "idle") => esr0' = esr
    /\ pc = "done" => (pc' = "idle" /\ esr' = esr)

\* an execute(C) has read a register that held an error bit before C was
\* sent, and the instrument raised none for C
StaleFlagRead ==
    ExecDone /\ status_val >= 0 /\ HasErrorBit(esr0) /\ ~HasErrorBit(raised)

\* C21 as stated: a query_checked(Q) that succeeds leaves the bits the
\* instrument set in the register, and the next execute(C) that reads them
\* fails with a device error that names C
C21_StaleFlagNamesCommand ==
    /\ [](/\ (QueryDone /\ result.tag = "Ok") => esr = BitOr(esr0, raised)
          /\ StaleFlagRead => (result.tag \in DeviceErrorTags /\ result.cmd = command))
    /\ [][RegisterCarriedOver]_vars

\* C21, amended: such an execute(C) fails with what the status check makes
\* of the stale bits: a syntax, verify-timeout or query error, or an
\* undefined-code error, each naming C; an execution error of the table,
\* which carries code, type and description and names no command; or, when
\* the EER? exchange fails, the failure of that exchange.  Q is named by none
\* of them
C21_StaleFlagAttributedToCommand ==
    /\ [](/\ (QueryDone /\ result.tag = "Ok")
                => (esr = BitOr(esr0, raised) /\ status_val = -1 /\ ~OnWire("*ESR?\n"))
          /\ StaleFlagRead
                => /\ status_val = BitOr(esr0, raised)
                   /\ IsErr(result)
                   /\ result.cmd \in {command, ""}
                   /\ result.cmd \notin QueryCommands
                   /\ result.tag \in {"CommandError", "VerifyTimeoutError", "QueryError",
                                      "UndefinedDeviceErrorCode"}
                        => result.cmd = command
                   /\ (BitSet(status_val, 5) \/ ~BitSet(status_val, 4))
                        => result = InspectStatus(status_val, command, NoResult)
                   /\ (~BitSet(status_val, 5) /\ BitSet(status_val, 4))
                        => IF eer_code = None THEN result.tag \in {"Io", "Parse"}
                           ELSE result = ResolveErrorCode(eer_code[1], command))
    /\ [][RegisterCarriedOver]_vars

\* the syntax-error bit left by an earlier call is charged to OP1 1, which
\* raised nothing itself
C21_Witness ==
    /\ ExecDone
    /\ esr0 = 32 /\ raised = 0
    /\ command = "OP1 1"
    /\ result = CommandError("OP1 1")

\* an event that did not end its command: a write or read that succeeded, a
\* status value without error bit, a pause
CleanEvent(ev) ==
    /\ ev.ev \notin {"write_err", "read_err"}
    /\ ev.ev = "read" => LET parsed == ParseU8(Trim(ev.val))
                         IN parsed.ok /\ ~HasErrorBit(parsed.val)

\* the command lines turn_on_multi / turn_off_multi send when nothing fails
PlannedLines ==
    LET cmds == SelectSeq(MultiPlan(MultiOn, opts, order), LAMBDA st : st.kind = "cmd")
    IN [i \in 1..Len(cmds) |-> full_command(cmds[i].line)]

\* C22: turn_on_multi / turn_off_multi go on to the next command or pause
\* only when everything before it succeeded; a call in which a per-channel
\* command fails returns an error, with nothing sent after the failing
\* command: no further configuration, no OPALL, and nothing that undoes the
\* commands the instrument had accepted before
C22_FailureAbortsSequence ==
    op \in MultiOps =>
        LET n == Len(CommandWrites)
        IN /\ \A k \in 1..Len(trace) :
                (IsCommandWrite(trace[k]) \/ trace[k] = MultiPause)
                    => \A j \in 1..(k - 1) : CleanEvent(trace[j])
           /\ (pc = "done" /\ \E j \in 1..Len(trace) : ~CleanEvent(trace[j]))
                => IsErr(result)
           /\ (pc = "done" /\ n < Len(PlannedLines))
                => /\ IsErr(result)
                   /\ ~OnWire(AggregateLine)
                   /\ Len(WritesOf(AggregateLine)) = 0
                   /\ \A i \in 1..n : CommandWrites[i].line = PlannedLines[i]
                   /\ ConfigLines(wire) \in {SubSeq(PlannedLines, 1, n),
                                             SubSeq(PlannedLines, 1, n - 1)}
                   /\ trace[Len(trace)].ev = "write_err"
                        => /\ result.tag = "Io"
                           /\ trace[Len(trace)].line \in {PlannedLines[n], "*ESR?\n", "EER?\n"}

\* channel 1 was configured, the mode command of channel 2 was answered with
\* a syntax error, and the call returned it
C22_Witness ==
    /\ pc = "done" /\ op = "turn_on_multi"
    /\ order = <<1, 2>>
    /\ ConfigLines(wire) = <<"ONACTION1 QUICK\n", "ONACTION2 DELAY\n">>
    /\ result = CommandError("ONACTION2 DELAY")

\* the *ESR? query of the recovery failed: its write, or its read
EsrQueryFailedInRecovery ==
    /\ pc = "done" /\ QueryFailed /\ status_val < 0
    /\ \/ trace[Len(trace)] = Ev("write_err", "*ESR?\n", 0, NoVal)
       \/ /\ trace[Len(trace)].ev = "read_err"
          /\ trace[Len(trace) - 1] = Ev("write", "*ESR?\n", 0, NoVal)

\* C23: when the query of a query_checked(C) fails and the *ESR? query of the
\* recovery fails too, the call returns an I/O error that describes the
\* *ESR? failure and names C, not the error of the failed query
C23_EsrFailureWrapsOriginal ==
    EsrQueryFailedInRecovery
        => /\ result.tag = "Io"
           /\ result.desc = "Failed to query *ESR?"
           /\ result.cmd = command
           /\ result.etype \in {"Io: BrokenPipe", "Io: WouldBlock", "Io: InvalidData",
                                "Parse: Invalid UTF-8 sequence"}
           /\ result # e

\* the query could not be written, and neither could *ESR?
C23_Witness ==
    /\ EsrQueryFailedInRecovery
    /\ trace = <<Ev("write_err", "OP1?\n", 0, NoVal), Ev("write_err", "*ESR?\n", 0, NoVal)>>
    /\ e = IoError("BrokenPipe")
    /\ result = EsrQueryFailed(IoError("BrokenPipe"), "OP1?")

\* a read was just made; the transport itself failed in it
ReadMade == Len(trace') = Len(trace) + 1
TransportFailed ==
    /\ trace'[Len(trace')].ev = "read_err"
    /\ IF pc = "q_read" THEN e' \in {IoError(k) : k \in IoKinds}
       ELSE result' \in {EsrQueryFailed(IoError(k), command) : k \in IoKinds}

\* C24: on the serial transport a read to which no byte arrives before the
\* deadline returns the empty line unless the transport itself fails; so the
\* status check of an execute(C) fails with the parse error of the *ESR?
\* value, and a query_checked(C) returns the empty response as success
\* without any recovery
C24_SilentSerialInstrument ==
    [][(conn = "serial" /\ rx = <<>> /\ pc \in {"q_read", "esr_read"} /\ ReadMade)
        => \/ TransportFailed
           \/ /\ trace'[Len(trace')] = Ev("read", "", 0, <<>>)
              /\ pc' = "done"
              /\ (pc = "esr_read" /\ op \in ExecOps)
                    => result' = ParseError("Could not parse ESR value", <<>>, command)
              /\ pc = "q_read"
                    => /\ result' = Ok(<<>>)
                       /\ e' = NoResult
                       /\ wire' = <<full_command(command)>>]_vars

\* an execute(C) on the serial transport got no answer to *ESR?
C24_Witness ==
    /\ ExecDone /\ conn = "serial"
    /\ Len(trace) = 4
    /\ trace[4] = Ev("read", "", 0, <<>>)
    /\ result = ParseError("Could not parse ESR value", <<>>, command)

\* C25: when a query is written no bytes of an earlier reply are waiting in
\* the receive buffer, so the line read next is the reply to that query
C25_ReplyBelongsToQuery ==
    [][(pc \in {"q_write", "esr_write", "eer_write"} /\ wire' # wire) => rx = <<>>]_vars

====
